---------------------------- MODULE Spec2Model ----------------------------
(***************************************************************************)
(* A model of src/src/index.js: the Indexed wrapper (count, has, get, put, *)
(* del, batch, read, readAll) running on top of an IndexedDB engine.       *)
(*                                                                         *)
(* The wrapper's code is translated handler by handler.  The engine is     *)
(* modelled as far as the wrapper drives it: one object store with in-line *)
(* keys, transactions that run in creation order when one of two is        *)
(* read-write, requests that are processed one at a time and answer with a *)
(* success or an error event, a transaction that commits once it has no    *)
(* request left and aborts when a request fails, and calls that throw      *)
(* (DataError for an invalid key or range, NotFoundError when the store is *)
(* missing).  Event handlers are tasks: they run only when no microtask    *)
(* (a caller's continuation after await) is pending.                       *)
(***************************************************************************)
EXTENDS Integers, Sequences, FiniteSets, TLC

\* ------------------------------------------------------------- bounds
MaxKey == 2        \* keys of a scanned table are 0..MaxKey (0 is the falsy key)
MaxOpKey == 1      \* keys used by point operations and batches are 0..MaxOpKey
MaxVal == 2        \* values are 1..MaxVal
MaxCalls == 2      \* calls issued on the handle in one behaviour
MaxOps == 2        \* length of a batch's list
MaxLimit == 3      \* opts.limit is undefined or 0..MaxLimit
MaxStatic == 3     \* calls of Indexed.open and Indexed.drop in one behaviour

\* JavaScript's undefined: an option that is not supplied, the result of a
\* get that finds no record, a key that is missing from a batch operation.
Undefined == -1

Keys == 0..MaxKey
OpKeys == 0..MaxOpKey
Values == 1..MaxVal

\* JavaScript truthiness of a key, a limit or undefined: 0 is falsy.
Truthy(x) == x # Undefined /\ x # 0

\* a || b
Or(a, b) == IF Truthy(a) THEN a ELSE b

\* A value the engine accepts as a key.
ValidKey(k) == k \in Keys

VARIABLES
  store,       \* the committed table: key -> value, Undefined when no record
  conn,        \* the handle in use: "open", "nostore" (db.transaction(loc)
               \* throws) or "null" (the caller holds no handle)
  calls,       \* the calls made so far, in order: what was asked
  promise,     \* per call: the promise the caller holds
  tx,          \* per call: the transaction the call created
  scan,        \* per call: the events object and the cursor of a read
  microtasks,  \* callers' continuations that run before the next task
  unhandled,   \* calls that left a rejected promise nobody handles
  hook,        \* Indexed.onerror: whether it is set, what it was called for
  idb,         \* window.indexedDB: the named database and its request queue
  statics      \* the calls of Indexed.open and Indexed.drop, in order

vars == <<store, conn, calls, promise, tx, scan, microtasks, unhandled,
          hook, idb, statics>>

\* ------------------------------------------------------------ key ranges
\* IDBKeyRange, as window.IDBKeyRange builds it.  kind "none" is the undefined
\* that getRange returns when it builds nothing; kind "throw" is a DataError.
NoRange == [kind |-> "none", lower |-> Undefined, upper |-> Undefined,
            lowerOpen |-> FALSE, upperOpen |-> FALSE]

RangeError == [NoRange EXCEPT !.kind = "throw"]

bound(lower, upper, lowerOpen, upperOpen) ==
  IF lower > upper \/ (lower = upper /\ (lowerOpen \/ upperOpen))
    THEN RangeError
    ELSE [kind |-> "range", lower |-> lower, upper |-> upper,
          lowerOpen |-> lowerOpen, upperOpen |-> upperOpen]

upperBound(upper, open) ==
  [kind |-> "range", lower |-> Undefined, upper |-> upper,
   lowerOpen |-> TRUE, upperOpen |-> open]

lowerBound(lower, open) ==
  [kind |-> "range", lower |-> lower, upper |-> Undefined,
   lowerOpen |-> open, upperOpen |-> TRUE]

getRange(o) ==
  LET exLower == o.lt # Undefined
      exUpper == o.gt # Undefined
  IN  IF Truthy(Or(o.lte, o.lt)) /\ Truthy(Or(o.gte, o.gt))
        THEN bound(Or(o.gte, o.gt), Or(o.lte, o.lt), exLower, exUpper)
      ELSE IF Truthy(Or(o.lte, o.lt))
        THEN upperBound(Or(o.lte, o.lt), exLower)
      ELSE IF Truthy(Or(o.gte, o.gt))
        THEN lowerBound(Or(o.gte, o.gt), exUpper)
      ELSE NoRange

\* Whether key k is in range r (an undefined range holds every key).
InRange(k, r) ==
  /\ r.kind # "throw"
  /\ \/ r.lower = Undefined
     \/ IF r.lowerOpen THEN k > r.lower ELSE k >= r.lower
  /\ \/ r.upper = Undefined
     \/ IF r.upperOpen THEN k < r.upper ELSE k <= r.upper

\* ------------------------------------------------------------- records
\* The options of read: a key not supplied is undefined.
NoOpts == [lt |-> Undefined, lte |-> Undefined, gt |-> Undefined,
           gte |-> Undefined, limit |-> Undefined, reverse |-> FALSE]

\* A promise: pending, resolved with {} ("empty"), {data} ("data", "flag" or
\* "rows"), {err} ("err") or {events} ("events"), or rejected with err.
Pending == [state |-> "pending", shape |-> "none", err |-> "none",
            data |-> Undefined, flag |-> FALSE, rows |-> <<>>]

ResolveEmpty == [Pending EXCEPT !.state = "resolved", !.shape = "empty"]

ResolveData(n) == [Pending EXCEPT !.state = "resolved", !.shape = "data", !.data = n]

ResolveFlag(b) == [Pending EXCEPT !.state = "resolved", !.shape = "flag", !.flag = b]

ResolveRows(rows) == [Pending EXCEPT !.state = "resolved", !.shape = "rows", !.rows = rows]

ResolveErr(e) == [Pending EXCEPT !.state = "resolved", !.shape = "err", !.err = e]

ResolveEvents == [Pending EXCEPT !.state = "resolved", !.shape = "events"]

Rejected(e) == [Pending EXCEPT !.state = "rejected", !.shape = "err", !.err = e]

\* resolve(r) on promise p: the first settlement wins; a handler that does
\* not resolve hands Pending, which changes nothing.
resolve(p, r) == IF p.state = "pending" THEN r ELSE p

\* A request placed on a transaction's store.
Req(type, key, value) == [type |-> type, key |-> key, value |-> value]

EmptyTable == [k \in Keys |-> Undefined]

\* No transaction: creating it threw.
NoTx == [mode |-> "none", state |-> "none", queue |-> <<>>,
         started |-> FALSE, work |-> EmptyTable]

\* db.transaction(loc, mode) with the requests placed on it before control
\* returns to the event loop.
NewTx(mode, queue) == [mode |-> mode, state |-> "live", queue |-> queue,
                       started |-> FALSE, work |-> EmptyTable]

\* const events = {}; let count = 0 and the cursor of a read.
NoScan == [events |-> [ondata |-> FALSE, onerror |-> FALSE, onend |-> FALSE],
           range |-> NoRange, dir |-> "next", cursor |-> Undefined,
           count |-> 0, log |-> <<>>, rows |-> <<>>,
           advances |-> 0, lookups |-> 0]

\* An event delivered to a handler of the events object.
Event(type, key, value) == [type |-> type, key |-> key, value |-> value]

\* resolve(this): the promise of open resolved with the handle.
ResolveHandle == [Pending EXCEPT !.state = "resolved", !.shape = "handle"]

StaticIds == 1..Len(statics)

\* The static calls whose promise has settled.
StaticSettled == {i \in StaticIds : statics[i].promise.state # "pending"}

\* A call of Indexed.open or Indexed.drop: its promise, the static calls it
\* was awaited after, whether this._db has been assigned, and whether the
\* engine failed its request (r.onerror has run).
Static(op) == [op |-> op, promise |-> Pending, seen |-> StaticSettled,
               db |-> FALSE, failed |-> FALSE]

\* window.indexedDB without the database: nothing exists, no connection is
\* open, no open or delete request is waiting.
NoDatabase == [exists |-> FALSE, connections |-> {}, queue |-> <<>>,
               phase |-> "idle", deleted |-> {}]

Ids == 1..Len(calls)

\* The calls whose promise has settled.
Settled == {c \in Ids : promise[c].state # "pending"}

\* ------------------------------------------------------------- getStore
\* getStore: {tx, store}, or, when db.transaction throws, the rejected
\* promise that the catch block returns in their place.
getStore(type) ==
  IF conn = "open" THEN [kind |-> "store", mode |-> type]
                   ELSE [kind |-> "rejectedPromise", mode |-> type]

\* store.put, store.delete and store.get throw DataError on an invalid key.
StoreCallThrows(req) ==
  req.type \in {"put", "delete", "get"} /\ ~ValidKey(req.key)

\* --------------------------------------------------- the request handlers
\* count: r.onsuccess = () => resolve({ data: r.result || 0 })
countOnSuccess(result) == ResolveData(Or(result, 0))

\* has: resolve({ data: typeof this.result !== 'undefined' })
hasOnSuccess(result) == ResolveFlag(result # Undefined)

\* getOnSuccess reading a field the record does not have.
getOnSuccessNoValue(result) ==
  IF result = Undefined THEN ResolveErr("NotFound") ELSE ResolveData(Undefined)

\* get: Not Found when the result is undefined, else its value
getOnSuccess(result) ==
  IF result = Undefined THEN ResolveErr("NotFound") ELSE ResolveData(result)

\* put: r.onsuccess = event => resolve({})
putOnSuccess(result) == ResolveEmpty

\* del: r.onsuccess = event => resolve({})
delOnSuccess(result) == ResolveEmpty

\* r.onerror of count, has, get, put, del; tx.onerror of batch
onRequestError == ResolveErr("RequestError")

\* batch: tx.oncomplete = event => resolve({})
batchOnComplete == ResolveEmpty

\* Indexed.onerror is not set.
NoHook == [set |-> FALSE, log |-> <<>>]

\* if (Indexed.onerror) Indexed.onerror(event.target), for the error of call
\* id (a call on the handle, or a static call).
IndexedOnerror(h, static, id) ==
  IF h.set THEN [h EXCEPT !.log = Append(@, [static |-> static, id |-> id])]
           ELSE h

\* The error handler of each operation on the hook: count's r.onerror does
\* not mention it; has, get, put, del and batch call it once; read calls it
\* in onError and in the lookup's r.onerror, and the events.onerror that
\* readAll attaches calls it once more.
ErrorHook(op, events, h, c) ==
  CASE op = "count" -> h
    [] op = "readAll" /\ events.onerror ->
         IndexedOnerror(IndexedOnerror(h, FALSE, c), FALSE, c)
    [] OTHER -> IndexedOnerror(h, FALSE, c)

\* ResolvesOn with batch resolving on the success of a request, like put.
ResolvesOnSuccess(op) ==
  IF op \in {"count", "has", "get", "put", "del", "batch"} THEN "success"
                                                           ELSE "scan"

\* Which event of the engine resolves the promise of an operation without
\* err: the success of its request ("success"), the completion of its
\* transaction ("complete"), or, for read and readAll, neither.
ResolvesOn(op) ==
  CASE op = "batch" -> "complete"
    [] op \in {"count", "has", "get", "put", "del"} -> "success"
    [] OTHER -> "scan"

\* What the promise of an operation resolves with when that event fires.
Resolution(op, result) ==
  CASE op = "count" -> countOnSuccess(result)
    [] op = "has" -> hasOnSuccess(result)
    [] op = "get" -> getOnSuccess(result)
    [] op = "put" -> putOnSuccess(result)
    [] op = "del" -> delOnSuccess(result)
    [] op = "batch" -> batchOnComplete
    [] OTHER -> Pending

\* ------------------------------------------------------ the operations
\* What a call records of itself: the operation, its arguments, and the
\* calls, on the handle and static, that had settled when it was made (the
\* calls it was awaited after).
Call(op, key, value, ops, opts) ==
  [op |-> op, key |-> key, value |-> value, ops |-> ops, opts |-> opts,
   seen |-> Settled, after |-> StaticSettled]

\* The executor of count, has, get, put and del: getStore, one request on
\* the store, the two handlers.  When getStore returned the rejected promise,
\* store is undefined and the call on it throws a TypeError, which rejects
\* the operation's promise; the promise getStore made is handled by nobody.
PointCall(op, mode, key, value, req) ==
  /\ Len(calls) < MaxCalls
  /\ calls' = Append(calls, Call(op, key, value, <<>>, NoOpts))
  /\ scan' = Append(scan, NoScan)
  /\ IF getStore(mode).kind # "store"
       THEN /\ promise' = Append(promise, Rejected("TypeError"))
            /\ tx' = Append(tx, NoTx)
            /\ unhandled' = unhandled \cup {Len(calls) + 1}
       ELSE IF StoreCallThrows(req)
         THEN /\ promise' = Append(promise, Rejected("DataError"))
              /\ tx' = Append(tx, NewTx(mode, <<>>))
              /\ UNCHANGED unhandled
         ELSE /\ promise' = Append(promise, Pending)
              /\ tx' = Append(tx, NewTx(mode, <<req>>))
              /\ UNCHANGED unhandled
  /\ UNCHANGED <<store, conn, hook, idb, statics, microtasks>>

\* The request each point operation places on the store.
countRequest == Req("count", Undefined, Undefined)

hasRequest(key) == Req("get", key, Undefined)

getRequest(key) == Req("get", key, Undefined)

putRequest(key, value) == Req("put", key, value)

\* delRequest calling store.get in place of store.delete.
delRequestAsGet(key) == Req("get", key, Undefined)

delRequest(key) == Req("delete", key, Undefined)

Count ==
  PointCall("count", "readwrite", Undefined, Undefined, countRequest)

Has ==
  \E key \in OpKeys :
    PointCall("has", "readwrite", key, Undefined, hasRequest(key))

Get ==
  \E key \in OpKeys :
    PointCall("get", "readonly", key, Undefined, getRequest(key))

Put ==
  \E key \in OpKeys, value \in Values :
    PointCall("put", "readwrite", key, value, putRequest(key, value))

Del ==
  \E key \in OpKeys :
    PointCall("del", "readwrite", key, Undefined, delRequest(key))

\* eachOp with the second test dropped: whatever is not a put is deleted.
eachOpElseDelete(op) ==
  IF op.type = "put" THEN <<putRequest(op.key, op.value)>>
  ELSE <<delRequest(op.key)>>

\* eachOp: the requests one operation of a batch places on the store.
eachOp(op) ==
  IF op.type = "put" THEN <<putRequest(op.key, op.value)>>
  ELSE IF op.type = "del" THEN <<delRequest(op.key)>>
  ELSE <<>>

\* ops.forEach(eachOp): the requests placed, in list order, until a call on
\* the store throws.
RECURSIVE forEach(_, _)
forEach(ops, placed) ==
  IF ops = <<>> THEN [queue |-> placed, threw |-> FALSE]
  ELSE LET reqs == eachOp(Head(ops))
       IN  IF reqs # <<>> /\ StoreCallThrows(reqs[1])
             THEN [queue |-> placed, threw |-> TRUE]
             ELSE forEach(Tail(ops), placed \o reqs)

\* The operations a batch may list: a put or a del of a key, one whose key
\* is missing (undefined), one of an unknown type.
BatchOp ==
  {[type |-> "put", key |-> k, value |-> v] : k \in OpKeys, v \in Values}
  \cup {[type |-> "del", key |-> k, value |-> Undefined] : k \in OpKeys}
  \cup {[type |-> "put", key |-> Undefined, value |-> 1],
        [type |-> "nop", key |-> 0, value |-> Undefined]}

RECURSIVE SeqsUpTo(_, _)
SeqsUpTo(S, n) ==
  IF n = 0 THEN {<<>>}
  ELSE LET shorter == SeqsUpTo(S, n - 1)
       IN  shorter \cup {Append(q, x) : q \in shorter, x \in S}

BatchLists == SeqsUpTo(BatchOp, MaxOps)

\* The executor of batch.  When getStore returned the rejected promise, tx is
\* undefined and tx.onerror = ... throws a TypeError.  A put or delete that
\* throws ends the executor with the earlier requests already placed.
Batch ==
  \E ops \in BatchLists :
    /\ Len(calls) < MaxCalls
    /\ calls' = Append(calls, Call("batch", Undefined, Undefined, ops, NoOpts))
    /\ scan' = Append(scan, NoScan)
    /\ IF getStore("readwrite").kind # "store"
         THEN /\ promise' = Append(promise, Rejected("TypeError"))
              /\ tx' = Append(tx, NoTx)
              /\ unhandled' = unhandled \cup {Len(calls) + 1}
         ELSE /\ promise' = Append(promise,
                  IF forEach(ops, <<>>).threw THEN Rejected("DataError")
                                              ELSE Pending)
              /\ tx' = Append(tx, NewTx("readwrite", forEach(ops, <<>>).queue))
              /\ UNCHANGED unhandled
    /\ UNCHANGED <<store, conn, hook, idb, statics, microtasks>>

\* ------------------------------------------------------------- read
\* Direction with opts.reverse ignored.
DirectionAlwaysNext(opts) == "next"

\* openCursor's second argument.
Direction(opts) == IF opts.reverse THEN "prevunique" ELSE "next"

\* The executor of read, called by the caller (op "read") or by readAll (op
\* "readAll", whose own promise is the one the caller holds).  read resolves
\* {events} before it returns, and the continuation that attaches the
\* handlers (the caller's after await, readAll's then callback) becomes a
\* microtask.  A throw (the TypeError on the undefined store, the DataError
\* of IDBKeyRange.bound) rejects read's promise: readAll's then callback
\* never runs, its promise stays pending, and the rejection is unhandled.
ReadCall(op, opts) ==
  /\ Len(calls) < MaxCalls
  /\ calls' = Append(calls, Call(op, Undefined, Undefined, <<>>, opts))
  /\ IF getStore("readonly").kind # "store"
       THEN /\ promise' = Append(promise,
                IF op = "read" THEN Rejected("TypeError") ELSE Pending)
            /\ tx' = Append(tx, NoTx)
            /\ scan' = Append(scan, NoScan)
            /\ unhandled' = unhandled \cup {Len(calls) + 1}
            /\ UNCHANGED microtasks
       ELSE IF getRange(opts).kind = "throw"
         THEN /\ promise' = Append(promise,
                  IF op = "read" THEN Rejected("DataError") ELSE Pending)
              /\ tx' = Append(tx, NewTx("readonly", <<>>))
              /\ scan' = Append(scan, [NoScan EXCEPT !.range = getRange(opts)])
              /\ unhandled' = IF op = "read" THEN unhandled
                              ELSE unhandled \cup {Len(calls) + 1}
              /\ UNCHANGED microtasks
         ELSE /\ promise' = Append(promise,
                  IF op = "read" THEN ResolveEvents ELSE Pending)
              /\ tx' = Append(tx, NewTx("readonly",
                                  <<Req("openCursor", Undefined, Undefined)>>))
              /\ scan' = Append(scan, [NoScan EXCEPT !.range = getRange(opts),
                                                     !.dir = Direction(opts)])
              /\ microtasks' = Append(microtasks, Len(calls) + 1)
              /\ UNCHANGED unhandled
  /\ UNCHANGED <<store, conn, hook, idb, statics>>

\* The continuation after read resolved: events.onerror, events.ondata and
\* events.onend are assigned.
Attach ==
  /\ microtasks # <<>>
  /\ scan' = [scan EXCEPT ![Head(microtasks)].events =
                [ondata |-> TRUE, onerror |-> TRUE, onend |-> TRUE]]
  /\ microtasks' = Tail(microtasks)
  /\ UNCHANGED <<store, conn, hook, idb, statics, calls, promise, tx, unhandled>>

\* ----------------------------------------------------------- the engine
\* Runnable with no order among transactions: each runs as soon as it is
\* created.
RunnableUnordered(c) ==
  /\ tx[c].state = "live"
  /\ microtasks = <<>>

\* Runnable with a read-write transaction not waiting for the read-only
\* transactions created before it.
RunnableWritersPass(c) ==
  /\ tx[c].state = "live"
  /\ microtasks = <<>>
  /\ \A d \in 1..(c - 1) :
       tx[d].state = "live" => tx[d].mode = "readonly"

\* Runnable with events delivered while a continuation is still pending.
RunnableBeforeAttach(c) ==
  /\ tx[c].state = "live"
  /\ \A d \in 1..(c - 1) :
       tx[d].state = "live" =>
         (tx[d].mode = "readonly" /\ tx[c].mode = "readonly")

\* A transaction may run when every transaction created before it that is
\* still live is read-only, and it is read-only itself.  Events are tasks.
Runnable(c) ==
  /\ tx[c].state = "live"
  /\ microtasks = <<>>
  /\ \A d \in 1..(c - 1) :
       tx[d].state = "live" =>
         (tx[d].mode = "readonly" /\ tx[c].mode = "readonly")

\* What a transaction reads and writes: its own copy once it has started.
Work(c) == IF tx[c].started THEN tx[c].work ELSE store

\* The table after a request.
ExecWork(work, req) ==
  CASE req.type = "put" -> [work EXCEPT ![req.key] = req.value]
    [] req.type = "delete" -> [work EXCEPT ![req.key] = Undefined]
    [] OTHER -> work

\* The result of a request: the record's value (undefined when there is
\* none), the number of records.
ExecResult(work, req) ==
  CASE req.type \in {"get", "lookup"} -> work[req.key]
    [] req.type = "count" -> Cardinality({k \in Keys : work[k] # Undefined})
    [] OTHER -> Undefined

\* The transaction of call c after its first request was processed and the
\* requests in more were placed by the handler.
Step(c, work, more) ==
  [tx[c] EXCEPT !.queue = Tail(@) \o more, !.started = TRUE, !.work = work]

Abort(c) == [tx[c] EXCEPT !.state = "aborted", !.queue = <<>>]

\* The engine processes the first request of a point operation or a batch
\* and fires its success event.
RequestSuccess ==
  \E c \in Ids :
    /\ Runnable(c)
    /\ tx[c].queue # <<>>
    /\ Head(tx[c].queue).type \in {"put", "delete", "get", "count"}
    /\ LET req == Head(tx[c].queue)
       IN  /\ tx' = [tx EXCEPT ![c] = Step(c, ExecWork(Work(c), req), <<>>)]
           /\ promise' = [promise EXCEPT ![c] =
                IF ResolvesOn(calls[c].op) = "success"
                  THEN resolve(@, Resolution(calls[c].op,
                                             ExecResult(Work(c), req)))
                  ELSE @]
    /\ UNCHANGED <<store, conn, hook, idb, statics, calls, scan, microtasks, unhandled>>

\* The transaction has no request left: it commits, its writes reach the
\* table, and its complete event fires.
Commit ==
  \E c \in Ids :
    /\ Runnable(c)
    /\ tx[c].queue = <<>>
    /\ tx' = [tx EXCEPT ![c].state = "committed"]
    /\ store' = Work(c)
    /\ promise' = [promise EXCEPT ![c] =
         IF ResolvesOn(calls[c].op) = "complete"
           THEN resolve(@, Resolution(calls[c].op, Undefined)) ELSE @]
    /\ UNCHANGED <<conn, hook, idb, statics, calls, scan, microtasks, unhandled>>

\* ------------------------------------------------- the cursor pipeline
\* ErrorEvents with onend called after onerror.
ErrorThenEnd(events) ==
  IF events.onerror
    THEN <<Event("error", Undefined, Undefined), Event("end", Undefined, Undefined)>>
    ELSE <<>>

\* if (events.onerror) events.onerror(event.target)
ErrorEvents(events) ==
  IF events.onerror THEN <<Event("error", Undefined, Undefined)>> ELSE <<>>

\* if (events.onend) events.onend()
EndEvents(events) ==
  IF events.onend THEN <<Event("end", Undefined, Undefined)>> ELSE <<>>

\* if (events.ondata) events.ondata(this.result.key, this.result.value)
DataEvents(events, key, value) ==
  IF events.ondata THEN <<Event("data", key, value)>> ELSE <<>>

\* RowsSet with the arguments of rows.set swapped.
RowsSetSwapped(rows, key, value) ==
  Append(rows, [key |-> value, value |-> key])

\* rows.set(key, value) on a Map kept as the sequence of its entries.
RowsSet(rows, key, value) ==
  IF \E i \in 1..Len(rows) : rows[i].key = key
    THEN [i \in 1..Len(rows) |->
            IF rows[i].key = key THEN [key |-> key, value |-> value]
                                 ELSE rows[i]]
    ELSE Append(rows, [key |-> key, value |-> value])

\* LimitReached comparing after the increment: count === opts.limit
LimitReachedLate(opts, count) == Truthy(opts.limit) /\ count = opts.limit

\* opts.limit && (count++ === (opts.limit - 1))
LimitReached(opts, count) == Truthy(opts.limit) /\ count = opts.limit - 1

\* The records of the table in the cursor's range that lie ahead of
\* position pos in direction dir (all of them when the cursor is opened).
Ahead(work, range, dir, pos) ==
  {k \in Keys : /\ work[k] # Undefined
                /\ InRange(k, range)
                /\ \/ pos = Undefined
                   \/ IF dir = "next" THEN k > pos ELSE k < pos}

\* The cursor's next position: the nearest record ahead, or undefined (the
\* null cursor) when there is none.
Position(work, range, dir, pos) ==
  LET ahead == Ahead(work, range, dir, pos)
  IN  IF ahead = {} THEN Undefined
      ELSE IF dir = "next"
        THEN CHOOSE k \in ahead : \A j \in ahead : k <= j
        ELSE CHOOSE k \in ahead : \A j \in ahead : k >= j

\* The engine fails the first request of a transaction and fires its error
\* event: at the request's onerror, and from there at tx.onerror (batch).
\* The error is not prevented, so the transaction aborts.
RequestError ==
  \E c \in Ids :
    /\ Runnable(c)
    /\ tx[c].queue # <<>>
    /\ tx' = [tx EXCEPT ![c] = Abort(c)]
    /\ scan' = [scan EXCEPT ![c].log = @ \o ErrorEvents(scan[c].events)]
    /\ promise' = [promise EXCEPT ![c] =
         IF ResolvesOn(calls[c].op) # "scan" THEN resolve(@, onRequestError)
         ELSE IF calls[c].op = "readAll" /\ scan[c].events.onerror
           THEN resolve(@, ResolveErr("RequestError"))
         ELSE @]
    /\ hook' = ErrorHook(calls[c].op, scan[c].events, hook, c)
    /\ UNCHANGED <<store, conn, idb, statics, calls, microtasks, unhandled>>

\* onSuccess: the cursor request (openCursor, or continue on the same
\* request) succeeded.  With a cursor, the record of its key is looked up;
\* with none, the scan ends.
CursorSuccess ==
  \E c \in Ids :
    /\ Runnable(c)
    /\ tx[c].queue # <<>>
    /\ Head(tx[c].queue).type \in {"openCursor", "continue"}
    /\ LET cursor == Position(Work(c), scan[c].range, scan[c].dir,
                              scan[c].cursor)
       IN  IF cursor # Undefined
             THEN /\ tx' = [tx EXCEPT ![c] =
                       Step(c, Work(c), <<Req("lookup", cursor, Undefined)>>)]
                  /\ scan' = [scan EXCEPT ![c].cursor = cursor,
                                          ![c].lookups = @ + 1]
                  /\ UNCHANGED promise
             ELSE /\ tx' = [tx EXCEPT ![c] = Step(c, Work(c), <<>>)]
                  /\ scan' = [scan EXCEPT ![c].cursor = cursor,
                                ![c].log = @ \o EndEvents(scan[c].events)]
                  /\ promise' = [promise EXCEPT ![c] =
                       IF calls[c].op = "readAll" /\ scan[c].events.onend
                         THEN resolve(@, ResolveRows(scan[c].rows)) ELSE @]
    /\ UNCHANGED <<store, conn, hook, idb, statics, calls, microtasks, unhandled>>

\* r.onsuccess of the lookup: ondata, then either the limit is reached and
\* the scan ends, or the cursor is continued.  A lookup that found nothing
\* makes this.result.key throw: the handler's exception aborts the
\* transaction.
LookupSuccess ==
  \E c \in Ids :
    /\ Runnable(c)
    /\ tx[c].queue # <<>>
    /\ Head(tx[c].queue).type = "lookup"
    /\ LET key == Head(tx[c].queue).key
           value == ExecResult(Work(c), Head(tx[c].queue))
           opts == calls[c].opts
           sc == scan[c]
           data == [sc EXCEPT
                      !.log = @ \o DataEvents(sc.events, key, value),
                      !.rows = IF calls[c].op = "readAll" /\ sc.events.ondata
                                 THEN RowsSet(@, key, value) ELSE @,
                      !.count = IF Truthy(opts.limit) THEN @ + 1 ELSE @]
       IN  IF value = Undefined
             THEN /\ tx' = [tx EXCEPT ![c] = Abort(c)]
                  /\ UNCHANGED <<scan, promise>>
           ELSE IF LimitReached(opts, sc.count)
             THEN /\ tx' = [tx EXCEPT ![c] = Step(c, Work(c), <<>>)]
                  /\ scan' = [scan EXCEPT ![c] =
                       [data EXCEPT !.log = @ \o EndEvents(sc.events)]]
                  /\ promise' = [promise EXCEPT ![c] =
                       IF calls[c].op = "readAll" /\ sc.events.onend
                         THEN resolve(@, ResolveRows(data.rows)) ELSE @]
           ELSE /\ tx' = [tx EXCEPT ![c] =
                     Step(c, Work(c), <<Req("continue", Undefined, Undefined)>>)]
                /\ scan' = [scan EXCEPT ![c] =
                     [data EXCEPT !.advances = @ + 1]]
                /\ UNCHANGED promise
    /\ UNCHANGED <<store, conn, hook, idb, statics, calls, microtasks, unhandled>>

\* ------------------------------------------------- open, init and drop
\* drop: r.onsuccess = () => resolve({ data: true })
dropOnSuccess == ResolveFlag(TRUE)

\* drop: r.onerror = event => resolve({ err: event.target })
dropOnError == ResolveErr("RequestError")

\* drop: r.onblocked = event => resolve({ err: event.target })
dropOnBlocked == ResolveErr("Blocked")

\* A static call places its request (indexedDB.open, deleteDatabase) behind
\* the requests already waiting for the name.
StaticCall(op) ==
  /\ Len(statics) < MaxStatic
  /\ statics' = Append(statics, Static(op))
  /\ idb' = [idb EXCEPT !.queue = Append(@, Len(statics) + 1)]
  /\ UNCHANGED <<store, conn, calls, promise, tx, scan, microtasks,
                 unhandled, hook>>

\* open: new Indexed(loc), then the executor of init: indexedDB.open and
\* the three handlers.
Open == StaticCall("open")

\* drop: deleteDatabase and the three handlers.
Drop == StaticCall("drop")

\* The engine is at the first waiting request, of the given kind, in one of
\* the given phases.
Processing(op, phases) ==
  /\ idb.queue # <<>>
  /\ statics[Head(idb.queue)].op = op
  /\ idb.phase \in phases

\* r.onupgradeneeded: the database did not exist, the engine made it and
\* started the version change transaction.  this._db is assigned, the object
\* store is created in that transaction and its oncomplete is assigned.
UpgradeNeeded ==
  /\ Processing("open", {"idle"})
  /\ ~idb.exists
  /\ statics' = [statics EXCEPT ![Head(idb.queue)].db = TRUE]
  /\ idb' = [idb EXCEPT !.phase = "upgrading",
                        !.connections = @ \cup {Head(idb.queue)}]
  /\ UNCHANGED <<store, conn, calls, promise, tx, scan, microtasks,
                 unhandled, hook>>

\* store.transaction.oncomplete: the version change transaction committed,
\* the database exists with an empty object store; resolve(this).
UpgradeComplete ==
  /\ Processing("open", {"upgrading"})
  /\ statics' = [statics EXCEPT ![Head(idb.queue)].promise =
                   resolve(@, ResolveHandle)]
  /\ idb' = [idb EXCEPT !.phase = "created", !.exists = TRUE]
  /\ store' = EmptyTable
  /\ conn' = "open"
  /\ UNCHANGED <<calls, promise, tx, scan, microtasks, unhandled, hook>>

\* r.onsuccess: the database is open (it existed, or it was just created);
\* this._db is assigned and resolve(this) is called (again, after a creation).
OpenSuccess ==
  /\ \/ Processing("open", {"idle"}) /\ idb.exists
     \/ Processing("open", {"created"})
  /\ statics' = [statics EXCEPT ![Head(idb.queue)].db = TRUE,
                                ![Head(idb.queue)].promise =
                                   resolve(@, ResolveHandle)]
  /\ idb' = [idb EXCEPT !.phase = "idle", !.queue = Tail(@),
                        !.connections = @ \cup {Head(idb.queue)}]
  /\ conn' = "open"
  /\ UNCHANGED <<store, calls, promise, tx, scan, microtasks, unhandled, hook>>

\* r.onerror = event => { throw event.target }: the engine failed the open
\* request (the database could not be opened, or the version change
\* transaction aborted and the database was not made).  The exception leaves
\* an event handler: nothing catches it and nothing settles init's promise.
OpenError ==
  /\ Processing("open", {"idle", "upgrading"})
  /\ statics' = [statics EXCEPT ![Head(idb.queue)].failed = TRUE]
  /\ idb' = [idb EXCEPT !.phase = "idle", !.queue = Tail(@),
                        !.connections = @ \ {Head(idb.queue)}]
  /\ UNCHANGED <<store, conn, calls, promise, tx, scan, microtasks,
                 unhandled, hook>>

\* The engine fires versionchange at the open connections (the wrapper has
\* no handler for it and closes nothing) and then blocked at the delete
\* request: r.onblocked.  The request keeps waiting for the connections.
DeleteBlocked ==
  /\ Processing("drop", {"idle"})
  /\ idb.connections # {}
  /\ statics' = [statics EXCEPT ![Head(idb.queue)].promise =
                   resolve(@, dropOnBlocked)]
  /\ idb' = [idb EXCEPT !.phase = "blocked"]
  /\ UNCHANGED <<store, conn, calls, promise, tx, scan, microtasks,
                 unhandled, hook>>

\* No connection is open (any more): the engine deletes the database and
\* fires success at the delete request: r.onsuccess.
DeleteSuccess ==
  /\ Processing("drop", {"idle", "blocked"})
  /\ idb.connections = {}
  /\ statics' = [statics EXCEPT ![Head(idb.queue)].promise =
                   resolve(@, dropOnSuccess)]
  /\ idb' = [idb EXCEPT !.exists = FALSE, !.phase = "idle", !.queue = Tail(@),
                        !.deleted = @ \cup {Head(idb.queue)}]
  /\ store' = EmptyTable
  /\ UNCHANGED <<conn, calls, promise, tx, scan, microtasks, unhandled, hook>>

\* The engine fails the delete request: r.onerror.  Nothing is deleted.
DeleteError ==
  /\ Processing("drop", {"idle", "blocked"})
  /\ statics' = [statics EXCEPT ![Head(idb.queue)].failed = TRUE,
                                ![Head(idb.queue)].promise =
                                   resolve(@, dropOnError)]
  /\ idb' = [idb EXCEPT !.phase = "idle", !.queue = Tail(@)]
  /\ UNCHANGED <<store, conn, calls, promise, tx, scan, microtasks,
                 unhandled, hook>>

\* A connection closes.  The wrapper never calls close, so this is the
\* engine closing the connection of a handle the caller holds no longer
\* (it was collected, or its context ended), with no transaction running.
ConnectionClosed ==
  \E h \in idb.connections :
    /\ statics[h].promise.state = "resolved"
    /\ IF idb.queue = <<>> THEN TRUE ELSE Head(idb.queue) # h
    /\ \A c \in Ids : tx[c].state # "live"
    /\ idb' = [idb EXCEPT !.connections = @ \ {h}]
    /\ conn' = IF idb.connections = {h} THEN "null" ELSE "open"
    /\ UNCHANGED <<store, calls, promise, tx, scan, microtasks, unhandled,
                   hook, statics>>

\* ------------------------------------------------------ specifications
\* The tables whose records have keys in K.
Tables(K) ==
  {t \in [Keys -> Values \cup {Undefined}] :
     \A k \in Keys \ K : t[k] = Undefined}

Fresh ==
  /\ calls = <<>>
  /\ promise = <<>>
  /\ tx = <<>>
  /\ scan = <<>>
  /\ microtasks = <<>>
  /\ unhandled = {}
  /\ statics = <<>>

\* Indexed.onerror is set.
SetHook == [NoHook EXCEPT !.set = TRUE]

\* The database as a handle opened earlier finds it: it exists and the
\* handle's connection (0: made before the behaviour starts) is open.
OpenDatabase == [NoDatabase EXCEPT !.exists = TRUE, !.connections = {0}]

\* A handle just opened on a database that holds any table over the
\* operations' keys, or on a database that lacks the store; Indexed.onerror
\* is set or not.
Init ==
  /\ store \in Tables(OpKeys)
  /\ conn \in {"open", "nostore"}
  /\ hook \in {NoHook, SetHook}
  /\ idb = OpenDatabase
  /\ Fresh

\* readAll() as the tests call it, without options.
ReadAll == ReadCall("readAll", NoOpts)

\* read() without options.
Read == ReadCall("read", NoOpts)

Next ==
  \/ Count
  \/ Has
  \/ Get
  \/ Put
  \/ Del
  \/ Batch
  \/ ReadAll
  \/ Read
  \/ Attach
  \/ RequestSuccess
  \/ RequestError
  \/ CursorSuccess
  \/ LookupSuccess
  \/ Commit

Spec == Init /\ [][Next]_vars

\* The options of a scan: at most one key for each side of the range, a
\* limit or none, either direction.
Side == {<<Undefined, Undefined>>}
        \cup {<<k, Undefined>> : k \in Keys}
        \cup {<<Undefined, k>> : k \in Keys}

ScanOpts ==
  {[lt |-> u[1], lte |-> u[2], gt |-> l[1], gte |-> l[2],
    limit |-> n, reverse |-> r] :
     u \in Side, l \in Side, n \in {Undefined} \cup 0..MaxLimit,
     r \in BOOLEAN}

\* One scan of a table, by read or by readAll.
InitScan ==
  /\ store \in Tables(Keys)
  /\ conn = "open"
  /\ hook = NoHook
  /\ idb = OpenDatabase
  /\ Fresh

ReadScan == calls = <<>> /\ \E opts \in ScanOpts : ReadCall("read", opts)

ReadAllScan == calls = <<>> /\ \E opts \in ScanOpts : ReadCall("readAll", opts)

NextScan ==
  \/ ReadScan
  \/ ReadAllScan
  \/ Attach
  \/ CursorSuccess
  \/ LookupSuccess
  \/ RequestError
  \/ Commit

SpecScan == InitScan /\ [][NextScan]_vars

\* The life of the database: the caller holds no handle; the database does
\* not exist, or it exists, left by an earlier run, with any table.  The
\* caller opens and drops it and counts on the handle it holds.
InitLife ==
  /\ store \in Tables(OpKeys)
  /\ conn = "null"
  /\ hook = SetHook
  /\ idb \in {[NoDatabase EXCEPT !.exists = e] :
               e \in {x \in BOOLEAN : x \/ store = EmptyTable}}
  /\ Fresh

CountLife == conn = "open" /\ Count

\* The events the engine fires when nothing fails.
EngineLife ==
  \/ UpgradeNeeded
  \/ UpgradeComplete
  \/ OpenSuccess
  \/ DeleteBlocked
  \/ DeleteSuccess
  \/ RequestSuccess
  \/ Commit

NextLife ==
  \/ Open
  \/ Drop
  \/ CountLife
  \/ EngineLife
  \/ OpenError
  \/ DeleteError
  \/ RequestError
  \/ ConnectionClosed

\* The engine fires the events that are due; what the caller does, whether
\* a connection ever closes and whether a request fails is left open.
SpecLife == InitLife /\ [][NextLife]_vars /\ WF_vars(EngineLife)

\* ------------------------------------------------------------ claims
\* The calls that are scans.
Scans == {c \in Ids : calls[c].op \in {"read", "readAll"}}

\* The positions of the events of one type in a log.
At(log, type) == {i \in 1..Len(log) : log[i].type = type}

\* The keys that ondata received.
DataKeys(log) == {log[i].key : i \in At(log, "data")}

\* The stored records whose key is in the range the cursor was opened on.
Matching(c) == {k \in Keys : store[k] # Undefined /\ InRange(k, scan[c].range)}

\* Key j comes before key k in the scan order that opts asks for.
Before(opts, j, k) == IF opts.reverse THEN j > k ELSE j < k

\* onend fired and was the last event.
Ended(log) == log # <<>> /\ log[Len(log)].type = "end"

\* C1: a scan without a limit that meets no engine error delivers one ondata
\* for each stored record whose key is in the range and for no other key,
\* each with its stored value, in strictly ascending key order (descending
\* when opts.reverse), then onend once as its last event; a scan whose
\* transaction finished has ended.
C1_ScanDeliversRange ==
  \A c \in Scans :
    LET log == scan[c].log
        opts == calls[c].opts
    IN  (/\ ~Truthy(opts.limit)
         /\ tx[c].state # "aborted"
         /\ scan[c].range.kind # "throw") =>
          /\ \A i \in At(log, "data") :
               /\ log[i].key \in Matching(c)
               /\ log[i].value = store[log[i].key]
          /\ \A i, j \in At(log, "data") :
               i < j => Before(opts, log[i].key, log[j].key)
          /\ \A i \in At(log, "end") :
               i = Len(log) /\ DataKeys(log) = Matching(c)
          /\ At(log, "error") = {}
          /\ tx[c].state = "committed" => Ended(log)

\* C1 witness: a reverse scan over a bounded range delivered two records
\* and ended.
C1_Witness ==
  \E c \in Scans :
    /\ calls[c].op = "read"
    /\ calls[c].opts.reverse
    /\ scan[c].range.kind = "range"
    /\ Len(scan[c].log) = 3
    /\ Ended(scan[c].log)

\* The options give exactly the pair gt, lt (or exactly the pair gte, lte).
PairOpen(o) ==
  o.gt # Undefined /\ o.lt # Undefined /\ o.gte = Undefined /\ o.lte = Undefined

PairClosed(o) ==
  o.gte # Undefined /\ o.lte # Undefined /\ o.gt = Undefined /\ o.lt = Undefined

\* C2: a completed scan without a limit over {gt: a, lt: b} has delivered
\* exactly the stored records with a < key < b, and over {gte: a, lte: b}
\* exactly those with a <= key <= b.
C2_MatchingPair ==
  \A c \in Scans :
    LET o == calls[c].opts
        log == scan[c].log
    IN  (~Truthy(o.limit) /\ Ended(log)) =>
          /\ PairOpen(o) =>
               DataKeys(log) =
                 {k \in Keys : store[k] # Undefined /\ o.gt < k /\ k < o.lt}
          /\ PairClosed(o) =>
               DataKeys(log) =
                 {k \in Keys : store[k] # Undefined /\ o.gte <= k /\ k <= o.lte}

\* The stored records in range that the scan order puts before key k.
Preceding(c, k) == {j \in Matching(c) : Before(calls[c].opts, j, k)}

\* min(n, m)
Min(n, m) == IF n < m THEN n ELSE m

\* C3: a scan with limit N >= 1 that meets no engine error delivers the
\* first min(N, M) of the M matching records in scan order and then onend
\* once as its last event; it looks up at most N records and advances the
\* cursor at most N - 1 times, and once the Nth record is delivered it has
\* ended with no request left on its transaction.
C3_LimitStopsScan ==
  \A c \in Scans :
    LET log == scan[c].log
        n == calls[c].opts.limit
    IN  (/\ n >= 1
         /\ tx[c].state # "aborted"
         /\ scan[c].range.kind # "throw") =>
          /\ \A i \in At(log, "data") :
               /\ log[i].key \in Matching(c)
               /\ log[i].value = store[log[i].key]
               /\ Cardinality(Preceding(c, log[i].key)) = i - 1
          /\ \A i \in At(log, "end") :
               /\ i = Len(log)
               /\ Cardinality(At(log, "data")) = Min(n, Cardinality(Matching(c)))
          /\ At(log, "error") = {}
          /\ scan[c].lookups <= n
          /\ scan[c].advances <= n - 1
          /\ Cardinality(At(log, "data")) = n =>
               Ended(log) /\ tx[c].queue = <<>>
          /\ tx[c].state = "committed" => Ended(log)

\* C3 witness: a scan with limit 2 over three matching records ended after
\* two of them.
C3_Witness ==
  \E c \in Scans :
    /\ calls[c].opts.limit = 2
    /\ Cardinality(Matching(c)) = 3
    /\ Len(scan[c].log) = 3
    /\ Ended(scan[c].log)
    /\ tx[c].state = "committed"

Terminals(log) == Cardinality(At(log, "end")) + Cardinality(At(log, "error"))

\* C9: once onend or onerror has fired, the scan delivers no further event;
\* a scan never delivers more than one terminal event (so never both onend
\* and onerror, and each at most once); and a step in which the engine
\* fails a request of the scan (cursor open, cursor advance or lookup)
\* delivers exactly one onerror, as the last event.
C9_TerminalStream ==
  [][\A c \in Scans :
       /\ Terminals(scan[c].log) > 0 => scan'[c].log = scan[c].log
       /\ Terminals(scan'[c].log) <= 1
       /\ (tx[c].state = "live" /\ tx'[c].state = "aborted") =>
            At(scan'[c].log, "error") = {Len(scan'[c].log)}]_vars

\* C9 witness: a scan delivered a record and then an error.
C9_Witness ==
  \E c \in Scans :
    /\ Len(scan[c].log) = 2
    /\ scan[c].log[1].type = "data"
    /\ scan[c].log[2].type = "error"
    /\ tx[c].state = "aborted"

\* One operation of a batch is a put or a del of key k.
Touches(op, k) == op.type \in {"put", "del"} /\ op.key = k

\* Call w writes key k.
Writes(w, k) ==
  \/ calls[w].op \in {"put", "del"} /\ calls[w].key = k
  \/ calls[w].op = "batch"
       /\ \E i \in 1..Len(calls[w].ops) : Touches(calls[w].ops[i], k)

\* The last operation of the list on key k is a put of value v.
FinalPut(ops, k, v) ==
  \E i \in 1..Len(ops) :
    /\ ops[i].type = "put" /\ ops[i].key = k /\ ops[i].value = v
    /\ \A j \in (i + 1)..Len(ops) : ~Touches(ops[j], k)

\* The table after the operations of a list, applied one at a time in list
\* order.
RECURSIVE Applied(_, _)
Applied(ops, table) ==
  IF ops = <<>> THEN table
  ELSE LET op == Head(ops)
       IN  Applied(Tail(ops),
             IF op.type = "put" /\ ValidKey(op.key)
               THEN [table EXCEPT ![op.key] = op.value]
             ELSE IF op.type = "del" /\ ValidKey(op.key)
               THEN [table EXCEPT ![op.key] = Undefined]
             ELSE table)

\* Every put and del of the list can be applied, and after is before with
\* all of them applied.
AllApplied(ops, before, after) ==
  /\ \A i \in 1..Len(ops) :
       ops[i].type \in {"put", "del"} => ValidKey(ops[i].key)
  /\ after = Applied(ops, before)

\* The transaction of call c commits in this step.
Commits(c) == tx[c].state = "live" /\ tx'[c].state = "committed"

\* C4: the committed table changes only when a transaction commits, and the
\* commit of a batch's transaction leaves the table either as it was or
\* with all put/del operations of the list applied.
C4_BatchAllOrNothing ==
  [][store' # store =>
       \E c \in Ids :
         /\ Commits(c)
         /\ calls[c].op = "batch" =>
              AllApplied(calls[c].ops, store, store')]_vars

\* The promise resolved {err} with an error of the engine.
EngineError(p) == p.shape = "err" /\ p.err = "RequestError"

\* Call g was made after call b had settled, and no call between them
\* writes key k.
AwaitedAfter(g, b, k) ==
  /\ b \in calls[g].seen
  /\ \A w \in (b + 1)..(g - 1) : ~Writes(w, k)

\* C5: a batch whose promise resolved {} has its transaction committed; a
\* get made after that resolution, of a key whose last operation in the
\* batch is a put and which no later call writes, resolves with the value
\* put; and a count made after it, with no write in between, counts at
\* least the keys the batch put.
C5_BatchResolvesAfterCommit ==
  \A b \in Ids :
    (calls[b].op = "batch" /\ promise[b] = ResolveEmpty) =>
      /\ tx[b].state = "committed"
      /\ \A g \in Ids :
           (/\ calls[g].op = "get"
            /\ AwaitedAfter(g, b, calls[g].key)
            /\ promise[g].state = "resolved"
            /\ ~EngineError(promise[g])) =>
             \A v \in Values :
               FinalPut(calls[b].ops, calls[g].key, v) =>
                 promise[g] = ResolveData(v)
      /\ \A n \in Ids :
           (/\ calls[n].op = "count"
            /\ \A k \in Keys : AwaitedAfter(n, b, k)
            /\ promise[n].state = "resolved"
            /\ ~EngineError(promise[n])) =>
             /\ promise[n].shape = "data"
             /\ promise[n].data >=
                  Cardinality({k \in Keys :
                     \E v \in Values : FinalPut(calls[b].ops, k, v)})

\* C5 witness: a batch of two operations resolved {} and a later get
\* resolved with a value the batch put.
C5_Witness ==
  \E b, g \in Ids :
    /\ calls[b].op = "batch"
    /\ Len(calls[b].ops) = 2
    /\ promise[b] = ResolveEmpty
    /\ calls[g].op = "get"
    /\ b \in calls[g].seen
    /\ \E v \in Values :
         /\ FinalPut(calls[b].ops, calls[g].key, v)
         /\ promise[g] = ResolveData(v)

\* The keys that have a record.
Records(table) == {k \in Keys : table[k] # Undefined}

C10_TxFailureResolvesErr ==
  \A c \in Ids :
    tx[c].state = "none" =>
      /\ promise[c].state = "resolved"
      /\ promise[c].shape = "err"
      /\ c \notin unhandled

\* The key supplied for the lower side (gt or gte) and for the upper side
\* (lt or lte); undefined when the side has none.
LowerKey(o) == IF o.gt # Undefined THEN o.gt ELSE o.gte

UpperKey(o) == IF o.lt # Undefined THEN o.lt ELSE o.lte

\* Key k satisfies the bounds the options ask for, each by its own key:
\* k > gt, k >= gte, k < lt, k <= lte.
Asked(o, k) ==
  /\ o.gt # Undefined => k > o.gt
  /\ o.gte # Undefined => k >= o.gte
  /\ o.lt # Undefined => k < o.lt
  /\ o.lte # Undefined => k <= o.lte

\* The stored records that the options ask for.
AskedRecords(o) == {k \in Keys : store[k] # Undefined /\ Asked(o, k)}

\* C11: a completed scan without a limit whose options supply a lower and an
\* upper bound, in any combination of gt/gte with lt/lte, has delivered
\* exactly the stored records inside the bounds, the lower bound exclusive
\* iff gt was used and the upper bound exclusive iff lt was used.
C11_EachBoundOwnKey ==
  \A c \in Scans :
    LET o == calls[c].opts
    IN  (/\ ~Truthy(o.limit)
         /\ Ended(scan[c].log)
         /\ LowerKey(o) # Undefined
         /\ UpperKey(o) # Undefined) =>
          DataKeys(scan[c].log) = AskedRecords(o)

\* Every put and del of the list names a key the engine accepts.
WellFormed(ops) ==
  \A i \in 1..Len(ops) :
    ops[i].type \in {"put", "del"} => ValidKey(ops[i].key)

\* C12: the commit of a batch leaves the table as it is after applying the
\* operations of the list one at a time in list order (put sets the record
\* of its key, del removes it, any other type changes nothing), and the
\* batch then resolves {}; a batch settles with {} or with an engine error
\* only, whether or not its list holds operations of an unknown type.
C12_BatchInListOrder ==
  [][\A c \in Ids :
       (calls[c].op = "batch" /\ WellFormed(calls[c].ops)) =>
         /\ Commits(c) =>
              /\ store' = Applied(calls[c].ops, store)
              /\ promise'[c] = ResolveEmpty
         /\ (tx[c].state # "none" /\ promise'[c].state # "pending") =>
              promise'[c] = ResolveEmpty \/ EngineError(promise'[c])]_vars

\* C12 witness: a batch that puts key 0 and then lists an operation of an
\* unknown type resolved {} and the record of key 0 holds the value put.
C12_Witness ==
  \E c \in Ids :
    /\ calls[c].op = "batch"
    /\ Len(calls[c].ops) = 2
    /\ calls[c].ops[1].type = "put"
    /\ calls[c].ops[1].key = 0
    /\ calls[c].ops[2].type = "nop"
    /\ promise[c] = ResolveEmpty
    /\ store[0] = calls[c].ops[1].value

\* The three handlers are attached to the events object.
Attached(events) == events.ondata /\ events.onerror /\ events.onend

\* C13: read has resolved {events} when it returns, and the engine delivers
\* no event of the scan (cursor success, lookup success, error) before the
\* continuation that attaches the handlers has run: once the scan's
\* transaction has processed anything, the three handlers are attached.
\* So every record looked up reaches ondata (at most the lookup in progress
\* is outstanding) and a scan whose transaction finished has delivered its
\* terminal event.
C13_ResolvesBeforeScan ==
  \A c \in Scans :
    LET log == scan[c].log
        data == Cardinality(At(log, "data"))
    IN  scan[c].range.kind # "throw" =>
          /\ calls[c].op = "read" => promise[c] = ResolveEvents
          /\ (tx[c].started \/ tx[c].state # "live") =>
               /\ Attached(scan[c].events)
               /\ \A i \in 1..Len(microtasks) : microtasks[i] # c
          /\ ~Attached(scan[c].events) =>
               log = <<>> /\ scan[c].lookups = 0
          /\ data <= scan[c].lookups /\ scan[c].lookups <= data + 1
          /\ tx[c].state = "committed" =>
               data = scan[c].lookups /\ Ended(log)
          /\ tx[c].state = "aborted" => Terminals(log) = 1

\* C13 witness: a read whose handlers were attached on resolution received
\* the one record of the table and then onend.
C13_Witness ==
  \E c \in Scans :
    /\ calls[c].op = "read"
    /\ promise[c] = ResolveEvents
    /\ Attached(scan[c].events)
    /\ Len(scan[c].log) = 2
    /\ scan[c].log[1].type = "data"
    /\ Ended(scan[c].log)
    /\ scan[c].lookups = 1

\* Static call o is an open made after drop d had settled, and the engine
\* did not fail the delete request of d.
DropThenOpen(d, o) ==
  /\ d \in StaticIds /\ o \in StaticIds
  /\ statics[d].op = "drop" /\ statics[o].op = "open"
  /\ d \in statics[o].seen
  /\ ~statics[d].failed

\* C14: an open made after an awaited drop yields a handle (unless the
\* engine fails the open), and a count made on a handle after that open has
\* resolved resolves {data: 0}, whatever the database held before and
\* whether or not a handle opened earlier is still held when drop is called.
C14_DropThenOpenEmpty ==
  /\ [](\A n \in Ids : \A d, o \in StaticIds :
          (/\ calls[n].op = "count"
           /\ DropThenOpen(d, o)
           /\ o \in calls[n].after
           /\ promise[n].state = "resolved"
           /\ ~EngineError(promise[n])) =>
            promise[n] = ResolveData(0))
  /\ \A d, o \in 1..MaxStatic :
       [](DropThenOpen(d, o) =>
            <>(d \in StaticIds /\ o \in StaticIds
               /\ (statics[o].promise = ResolveHandle \/ statics[o].failed
                   \/ statics[d].failed)))

\* Indexed.onerror was called for the error of call id.
Hooked(static, id) ==
  \E i \in 1..Len(hook.log) : hook.log[i] = [static |-> static, id |-> id]

\* C15: with Indexed.onerror set, every call that resolved {err} for an
\* engine error, every scan that delivered onerror and every drop that
\* resolved {err} has had the hook called for it.
C15_HookSeesEveryError ==
  hook.set =>
    /\ \A c \in Ids : EngineError(promise[c]) => Hooked(FALSE, c)
    /\ \A c \in Scans : At(scan[c].log, "error") # {} => Hooked(FALSE, c)
    /\ \A d \in StaticIds :
         (statics[d].op = "drop" /\ statics[d].promise.shape = "err") =>
           Hooked(TRUE, d)

\* The engine has finished with the request of static call s.
Processed(s) == \A i \in 1..Len(idb.queue) : idb.queue[i] # s

\* C16: the promise of open resolves with the handle only, with this._db
\* assigned and the database existing, and never while the transaction that
\* creates the table is still running; when the engine has failed the open
\* request the promise is rejected; and once the engine has finished with
\* the request the promise is settled.
C16_OpenSettlesOnce ==
  \A o \in StaticIds :
    statics[o].op = "open" =>
      /\ statics[o].promise.state = "resolved" =>
           /\ statics[o].promise = ResolveHandle
           /\ statics[o].db
           /\ o \in idb.connections => idb.exists
           /\ ~(idb.phase = "upgrading" /\ ~Processed(o) /\ Head(idb.queue) = o)
      /\ statics[o].failed => statics[o].promise.state = "rejected"
      /\ Processed(o) => statics[o].promise.state # "pending"

\* C17: the range a scan is opened on is bounded on every side for which the
\* options supply a key, at that key, whatever its value, and is no range at
\* all (the full table) exactly when the options supply none of lt, lte, gt,
\* gte; so every key delivered is at or above a supplied gt/gte and at or
\* below a supplied lt/lte.
C17_BoundedWhenSupplied ==
  \A c \in Scans :
    LET o == calls[c].opts
        r == scan[c].range
        log == scan[c].log
    IN  r.kind # "throw" =>
          /\ r.kind = "none" <=>
               (LowerKey(o) = Undefined /\ UpperKey(o) = Undefined)
          /\ LowerKey(o) # Undefined => r.lower = LowerKey(o)
          /\ UpperKey(o) # Undefined => r.upper = UpperKey(o)
          /\ \A i \in At(log, "data") :
               /\ LowerKey(o) # Undefined => log[i].key >= LowerKey(o)
               /\ UpperKey(o) # Undefined => log[i].key <= UpperKey(o)

\* C18: a completed scan without a limit whose options supply exactly one
\* bound key has delivered exactly the stored records with key < lt, with
\* key <= lte, with key > gt, or with key >= gte, by the key supplied.
C18_SingleBoundOwnKey ==
  \A c \in Scans :
    LET o == calls[c].opts
    IN  (/\ ~Truthy(o.limit)
         /\ Ended(scan[c].log)
         /\ (LowerKey(o) = Undefined) # (UpperKey(o) = Undefined)) =>
          DataKeys(scan[c].log) = AskedRecords(o)

\* The transaction of call c is in progress: it has processed a request and
\* has neither committed nor aborted.
InProgress(c) == tx[c].started /\ tx[c].state = "live"

\* Call c is a batch whose operations the engine all accepts.
IsBatch(c) == calls[c].op = "batch" /\ WellFormed(calls[c].ops)

\* C19: of two batches on the same handle, no request of one is processed
\* while the transaction of the other is in progress; the table changes
\* only when a transaction commits, and the commit of each batch leaves the
\* table as it is after applying that batch's list to the table it found;
\* so once both have resolved {} (each having placed a request, and no
\* other call writing), both have committed and the table is the second
\* list applied to the table the first batch committed, in one of the two
\* orders.
C19_BatchesIsolated ==
  [][/\ \A a, b \in Ids :
          (a # b /\ IsBatch(a) /\ IsBatch(b)) =>
            /\ tx'[a] # tx[a] => ~InProgress(b)
            /\ Commits(a) => store' = Applied(calls[a].ops, store)
            /\ (/\ promise'[a] = ResolveEmpty
                /\ promise'[b] = ResolveEmpty
                /\ tx'[a].started /\ tx'[b].started
                /\ \A w \in Ids \ {a, b} :
                     calls[w].op \notin {"put", "del", "batch"}) =>
                 /\ tx'[a].state = "committed"
                 /\ tx'[b].state = "committed"
                 /\ \/ store' = Applied(calls[b].ops, tx'[a].work)
                    \/ store' = Applied(calls[a].ops, tx'[b].work)
     /\ store' # store => \E c \in Ids : Commits(c)]_vars

\* C19 witness: two batches, the second issued before the first had
\* settled, put different values under the same key; both resolved {} and
\* the record holds the value of the second.
C19_Witness ==
  \E a, b \in Ids :
    /\ a < b
    /\ IsBatch(a) /\ IsBatch(b)
    /\ a \notin calls[b].seen
    /\ promise[a] = ResolveEmpty /\ promise[b] = ResolveEmpty
    /\ \E k \in OpKeys : \E v, w \in Values :
         /\ v # w
         /\ FinalPut(calls[a].ops, k, v)
         /\ FinalPut(calls[b].ops, k, w)
         /\ store[k] = w

\* The requests of the cursor pipeline.
ScanRequests == {"openCursor", "continue", "lookup"}

\* C20: while the transaction of a scan is in progress the table does not
\* change; the transaction reads the table as it was when it started, and
\* every (key, value) that ondata received is a record of that table with
\* that value.  The cursor's requests and the lookups are all placed on the
\* scan's own transaction, a lookup is for the cursor's key and finds its
\* record, and a scan's transaction aborts only with an error reported.
C20_ScanSnapshot ==
  [][/\ \A c \in Scans :
          LET log == scan'[c].log
              queue == tx'[c].queue
          IN  /\ InProgress(c) => store' = store
              /\ (~tx[c].started /\ tx'[c].started) => tx'[c].work = store
              /\ tx[c].started => tx'[c].work = tx[c].work
              /\ \A i \in At(log, "data") :
                   /\ log[i].value # Undefined
                   /\ log[i].value = tx'[c].work[log[i].key]
              /\ (queue # <<>> /\ Head(queue).type = "lookup") =>
                   /\ Head(queue).key = scan'[c].cursor
                   /\ tx'[c].work[Head(queue).key] # Undefined
              /\ tx'[c].state = "aborted" => At(log, "error") # {}
     /\ \A c \in Ids \ Scans :
          \A i \in 1..Len(tx'[c].queue) :
            tx'[c].queue[i].type \notin ScanRequests]_vars

\* C20 witness: a scan in progress has delivered a record while a put of
\* another value under the same key, issued after it, waits.
C20_Witness ==
  \E c \in Scans : \E w \in Ids :
    /\ c < w
    /\ calls[c].op = "read"
    /\ InProgress(c)
    /\ calls[w].op = "put"
    /\ tx[w].state = "live"
    /\ At(scan[c].log, "data") # {}
    /\ calls[w].key = scan[c].log[1].key
    /\ calls[w].value # scan[c].log[1].value


\* Static call d is a drop.
IsDrop(d) == d \in StaticIds /\ statics[d].op = "drop"

\* C21: the result of drop agrees with what happened to the database: a
\* drop that resolved {err}, for an engine failure or for being blocked by
\* an open connection, has not deleted the database and does not delete it
\* later; a drop that deleted the database resolved {data: true}; and the
\* promise of a drop, once settled, keeps its result.
C21_DropResultAgrees ==
  /\ [](\A d \in StaticIds :
          IsDrop(d) =>
            /\ statics[d].promise.shape = "err" => d \notin idb.deleted
            /\ d \in idb.deleted => statics[d].promise = dropOnSuccess
            /\ statics[d].promise.state = "pending"
                 \/ statics[d].promise \in
                      {dropOnSuccess, dropOnError, dropOnBlocked})
  /\ [][\A d \in StaticIds :
          (IsDrop(d) /\ statics[d].promise.state # "pending") =>
            statics'[d].promise = statics[d].promise]_vars

=============================================================================
